---- MODULE Spec2Model ----
(***************************************************************************)
(* A model of scripts/verify-dist.mjs: the post-build check that walks     *)
(* dist/, dist/index.html and dist/assets and reports through the exit     *)
(* status, standard output and the error stream.                           *)
(*                                                                         *)
(* File names are sequences of one-character strings, so that the suffix   *)
(* test is computed character by character; paths, messages and printed    *)
(* lines are strings built by concatenation as the template literals of    *)
(* the script build them.                                                  *)
(***************************************************************************)
EXTENDS Integers, Sequences, FiniteSets, TLC

VARIABLES
  cwd,       \* process.cwd(): the working directory of the invocation
  fs,        \* what the filesystem answers: see FsStates
  pc,        \* position of the run in main and its rejection handler
  opLog,     \* the filesystem calls made by the current run, in call order
  assets,    \* main's local `assets`
  error,     \* message of the Error main rejected with, NoError if none
  stdout,    \* lines written by console.log
  stderr,    \* lines written by console.error
  exitCode,  \* process.exitCode, 0 while unset
  run,       \* number of the current invocation
  results    \* outcome of every finished invocation, oldest first

vars == <<cwd, fs, pc, opLog, assets, error, stdout, stderr, exitCode, run, results>>

(***************************************************************************)
(* Bounds                                                                  *)
(***************************************************************************)
MaxEntries == 2
MaxRuns == 2

(***************************************************************************)
(* Inputs                                                                  *)
(***************************************************************************)
AppJs == <<"a", "p", "p", ".", "j", "s">>
DotJs == <<".", "j", "s">>
UpperJs == <<"A", "P", "P", ".", "J", "S">>
Jsx == <<"a", ".", "j", "s", "x">>
JsMap == <<"a", ".", "j", "s", ".", "m", "a", "p">>
NoDot == <<"a", "j", "s">>

Names == {AppJs, DotJs, UpperJs, Jsx, JsMap, NoDot}

Roots == {"/", "/srv/app"}

\* A directory listing: distinct names, in whatever order the read returns.
Listings ==
  UNION { { l \in [1..n -> Names] : \A i, j \in 1..n : i # j => l[i] # l[j] }
          : n \in 0..MaxEntries }

\* What fs.access and fs.readdir answer for the three paths of the script.
\* dist, html and assetsDir are "ok" or the code of the rejection; entries is
\* the listing of dist/assets.  Nothing under dist can be reached when dist
\* itself cannot; dist being a regular file or unsearchable makes both
\* index.html and assets fail with the same code.
FsStates ==
       { [dist |-> e, html |-> e, assetsDir |-> e, entries |-> <<>>]
           : e \in {"ENOENT", "EACCES"} }
  \cup { [dist |-> "ok", html |-> e, assetsDir |-> e, entries |-> <<>>]
           : e \in {"ENOTDIR", "EACCES"} }
  \cup { [dist |-> "ok", html |-> h, assetsDir |-> a, entries |-> <<>>]
           : h \in {"ok", "ENOENT"}, a \in {"ENOENT", "ENOTDIR", "EACCES"} }
  \cup { [dist |-> "ok", html |-> h, assetsDir |-> "ok", entries |-> l]
           : h \in {"ok", "ENOENT"}, l \in Listings }

(***************************************************************************)
(* Pure helpers                                                            *)
(***************************************************************************)
NoError == "<none>"

\* The JavaScript string of a name.
RECURSIVE Str(_)
Str(name) == IF name = <<>> THEN "" ELSE Head(name) \o Str(Tail(name))

\* path.resolve(base, segment) for an absolute base and a plain segment.
resolve(base, segment) ==
  IF base = "/" THEN "/" \o segment ELSE base \o "/" \o segment

root == cwd
distDir == resolve(root, "dist")
htmlPath == resolve(distDir, "index.html")
assetsDir == resolve(distDir, "assets")

JsSuffix == <<".", "j", "s">>

\* A mutant of endsWith: the suffix anywhere in the name (String.includes).
includes(s, suffix) ==
  \E k \in 1..Len(s) :
    /\ k + Len(suffix) - 1 <= Len(s)
    /\ SubSeq(s, k, k + Len(suffix) - 1) = suffix

\* String.prototype.endsWith(suffix)
endsWith(s, suffix) ==
  LET start == Len(s) - Len(suffix)
  IN  IF start < 0 THEN FALSE ELSE SubSeq(s, start + 1, Len(s)) = suffix

\* assets.some((file) => file.endsWith(".js"))
someJs(listing) == \E i \in 1..Len(listing) : endsWith(listing[i], JsSuffix)

\* fs.access(path): "ok" or the code it rejects with.
fsAccess(path) ==
  CASE path = distDir -> fs.dist
    [] path = htmlPath -> fs.html
    [] path = assetsDir -> fs.assetsDir
    [] OTHER -> "ENOENT"

\* fs.readdir(path): the code and, when it resolves, the listing.
fsReaddir(path) ==
  IF path = assetsDir
  THEN [code |-> fs.assetsDir, value |-> fs.entries]
  ELSE [code |-> "ENOENT", value |-> <<>>]

\* A mutant of ensureExists: the rejection of fs.access is swallowed.
ensureExistsSilent(path, description) == NoError

\* A mutant of ensureExists: the message leaves the path out.
ensureExistsNoPath(path, description) ==
  IF fsAccess(path) = "ok" THEN NoError ELSE "Missing " \o description

\* ensureExists(path, description): NoError when it resolves, else the
\* message of the Error it throws.
ensureExists(path, description) ==
  IF fsAccess(path) = "ok"
  THEN NoError
  ELSE "Missing " \o description \o " at " \o path

MissingJsMessage == "dist/assets is missing bundled JavaScript output"
Header == "Prebuilt dist assets detected:"

\* A mutant of summaryLines: only the bundled scripts are listed.
summaryLinesJsOnly(listing) ==
  LET F[i \in 0..Len(listing)] ==
        IF i = 0 THEN <<>>
        ELSE IF endsWith(listing[i], JsSuffix)
             THEN Append(F[i - 1], "  - " \o Str(listing[i]))
             ELSE F[i - 1]
  IN  <<Header>> \o F[Len(listing)]

\* The lines console.log writes on success: the header, then the loop.
summaryLines(listing) ==
  <<Header>> \o [i \in 1..Len(listing) |-> "  - " \o Str(listing[i])]

Call(name, path) == [call |-> name, path |-> path, result |-> "pending", value |-> <<>>]

\* The last call of the log settled with `code` and returned `value`.
Settle(log, code, value) ==
  [log EXCEPT ![Len(log)].result = code, ![Len(log)].value = value]

(***************************************************************************)
(* Initial state                                                           *)
(***************************************************************************)
Init ==
  /\ cwd \in Roots
  /\ fs \in FsStates
  /\ pc = "start"
  /\ opLog = <<>>
  /\ assets = <<>>
  /\ error = NoError
  /\ stdout = <<>>
  /\ stderr = <<>>
  /\ exitCode = 0
  /\ run = 1
  /\ results = <<>>

(***************************************************************************)
(* The run: main (lines 12-29) and the rejection handler (lines 31-34).    *)
(* Every await is a point where the run waits for the filesystem; an       *)
(* action is the code that runs from one such point to the next.           *)
(***************************************************************************)

\* A mutant of Start: both existence checks are started together.
StartBoth ==
  /\ pc = "start"
  /\ opLog' = <<Call("access", distDir), Call("access", htmlPath)>>
  /\ pc' = "accessDist"
  /\ UNCHANGED <<cwd, fs, assets, error, stdout, stderr, exitCode, run, results>>

\* main is called: the paths are resolved and fs.access(distDir) is issued.
Start ==
  /\ pc = "start"
  /\ opLog' = Append(opLog, Call("access", distDir))
  /\ pc' = "accessDist"
  /\ UNCHANGED <<cwd, fs, assets, error, stdout, stderr, exitCode, run, results>>

\* A mutant of DistChecked: a missing dist is created before the run fails.
DistCheckedMkdir ==
  /\ pc = "accessDist"
  /\ LET r == ensureExists(distDir, "dist directory")
     IN  IF r = NoError
         THEN /\ opLog' = Append(Settle(opLog, "ok", <<>>), Call("access", htmlPath))
              /\ pc' = "accessHtml"
              /\ UNCHANGED <<error, fs>>
         ELSE /\ opLog' = Settle(opLog, fsAccess(distDir), <<>>)
              /\ error' = r
              /\ pc' = "rejected"
              /\ fs' = [fs EXCEPT !.dist = "ok", !.html = "ENOENT", !.assetsDir = "ENOENT"]
  /\ UNCHANGED <<cwd, assets, stdout, stderr, exitCode, run, results>>

\* ensureExists(distDir, "dist directory") settles; on success
\* fs.access(htmlPath) is issued, otherwise main rejects.
DistChecked ==
  /\ pc = "accessDist"
  /\ LET r == ensureExists(distDir, "dist directory")
     IN  IF r = NoError
         THEN /\ opLog' = Append(Settle(opLog, "ok", <<>>), Call("access", htmlPath))
              /\ pc' = "accessHtml"
              /\ UNCHANGED error
         ELSE /\ opLog' = Settle(opLog, fsAccess(distDir), <<>>)
              /\ error' = r
              /\ pc' = "rejected"
  /\ UNCHANGED <<cwd, fs, assets, stdout, stderr, exitCode, run, results>>

\* ensureExists(htmlPath, "dist/index.html") settles; on success
\* fs.readdir(assetsDir) is issued, otherwise main rejects.
HtmlChecked ==
  /\ pc = "accessHtml"
  /\ LET r == ensureExists(htmlPath, "dist/index.html")
     IN  IF r = NoError
         THEN /\ opLog' = Append(Settle(opLog, "ok", <<>>), Call("readdir", assetsDir))
              /\ pc' = "readdir"
              /\ UNCHANGED error
         ELSE /\ opLog' = Settle(opLog, fsAccess(htmlPath), <<>>)
              /\ error' = r
              /\ pc' = "rejected"
  /\ UNCHANGED <<cwd, fs, assets, stdout, stderr, exitCode, run, results>>

\* A mutant of AssetsRead: only a missing directory becomes an empty
\* listing, any other rejection of fs.readdir rejects main.
AssetsReadRethrow ==
  /\ pc = "readdir"
  /\ LET r == fsReaddir(assetsDir)
     IN  /\ opLog' = Settle(opLog, r.code, IF r.code = "ok" THEN r.value ELSE <<>>)
         /\ IF r.code \in {"ok", "ENOENT"}
            THEN /\ assets' = (IF r.code = "ok" THEN r.value ELSE <<>>)
                 /\ pc' = "check"
                 /\ UNCHANGED error
            ELSE /\ error' = r.code \o ": scandir " \o assetsDir
                 /\ pc' = "rejected"
                 /\ UNCHANGED assets
  /\ UNCHANGED <<cwd, fs, stdout, stderr, exitCode, run, results>>

\* A mutant of AssetsRead: a missing dist/assets is created.
AssetsReadMkdir ==
  /\ pc = "readdir"
  /\ LET r == fsReaddir(assetsDir)
     IN  /\ opLog' = Settle(opLog, r.code, IF r.code = "ok" THEN r.value ELSE <<>>)
         /\ assets' = (IF r.code = "ok" THEN r.value ELSE <<>>)
         /\ fs' = IF r.code = "ENOENT" THEN [fs EXCEPT !.assetsDir = "ok"] ELSE fs
  /\ pc' = "check"
  /\ UNCHANGED <<cwd, error, stdout, stderr, exitCode, run, results>>

\* fs.readdir(assetsDir).catch(() => []) settles: the listing, or the empty
\* listing whatever the rejection was.
AssetsRead ==
  /\ pc = "readdir"
  /\ LET r == fsReaddir(assetsDir)
     IN  /\ opLog' = Settle(opLog, r.code, IF r.code = "ok" THEN r.value ELSE <<>>)
         /\ assets' = (IF r.code = "ok" THEN r.value ELSE <<>>)
  /\ pc' = "check"
  /\ UNCHANGED <<cwd, fs, error, stdout, stderr, exitCode, run, results>>

\* A mutant of CheckAndPrint: the summary lists the directory as it is now,
\* not the listing that was tested.
CheckAndPrintReread ==
  /\ pc = "check"
  /\ IF ~someJs(assets)
     THEN /\ error' = MissingJsMessage
          /\ pc' = "rejected"
          /\ UNCHANGED stdout
     ELSE /\ stdout' = stdout \o summaryLines(fsReaddir(assetsDir).value)
          /\ pc' = "resolved"
          /\ UNCHANGED error
  /\ UNCHANGED <<cwd, fs, opLog, assets, stderr, exitCode, run, results>>

\* Lines 21-29: the test of the listing, then the summary.
CheckAndPrint ==
  /\ pc = "check"
  /\ IF ~someJs(assets)
     THEN /\ error' = MissingJsMessage
          /\ pc' = "rejected"
          /\ UNCHANGED stdout
     ELSE /\ stdout' = stdout \o summaryLines(assets)
          /\ pc' = "resolved"
          /\ UNCHANGED error
  /\ UNCHANGED <<cwd, fs, opLog, assets, stderr, exitCode, run, results>>

\* A mutant of CatchHandler: the exit status is left unset.
CatchHandlerNoExitCode ==
  /\ pc = "rejected"
  /\ stderr' = Append(stderr, error)
  /\ pc' = "handled"
  /\ UNCHANGED <<cwd, fs, opLog, assets, error, stdout, exitCode, run, results>>

\* main().catch(...): the message goes to the error stream and the exit
\* status is set.
CatchHandler ==
  /\ pc = "rejected"
  /\ stderr' = Append(stderr, error)
  /\ exitCode' = 1
  /\ pc' = "handled"
  /\ UNCHANGED <<cwd, fs, opLog, assets, error, stdout, run, results>>

\* Nothing is left to run: the process exits with process.exitCode.
Exit ==
  /\ pc \in {"resolved", "handled"}
  /\ pc' = "exited"
  /\ results' = Append(results, [exitCode |-> exitCode, stdout |-> stdout, stderr |-> stderr])
  /\ UNCHANGED <<cwd, fs, opLog, assets, error, stdout, stderr, exitCode, run>>

\* The script is invoked again in the same working directory: a new process.
Rerun ==
  /\ pc = "exited"
  /\ run < MaxRuns
  /\ run' = run + 1
  /\ pc' = "start"
  /\ opLog' = <<>>
  /\ assets' = <<>>
  /\ error' = NoError
  /\ stdout' = <<>>
  /\ stderr' = <<>>
  /\ exitCode' = 0
  /\ UNCHANGED <<cwd, fs, results>>

RunStep ==
  \/ Start
  \/ DistChecked
  \/ HtmlChecked
  \/ AssetsRead
  \/ CheckAndPrint
  \/ CatchHandler
  \/ Exit

Next == RunStep \/ Rerun

Spec == Init /\ [][Next]_vars

\* The event loop runs every continuation that is ready, and the filesystem
\* answers every call.
FairSpec == Spec /\ WF_vars(Next)

(***************************************************************************)
(* Another process changing dist/assets while the run is in progress.      *)
(***************************************************************************)
EnvAddAsset ==
  /\ pc # "exited"
  /\ fs.assetsDir = "ok"
  /\ Len(fs.entries) < MaxEntries
  /\ \E n \in Names :
       /\ \A i \in 1..Len(fs.entries) : fs.entries[i] # n
       /\ fs' = [fs EXCEPT !.entries = Append(@, n)]
  /\ UNCHANGED <<cwd, pc, opLog, assets, error, stdout, stderr, exitCode, run, results>>

EnvRemoveAsset ==
  /\ pc # "exited"
  /\ fs.assetsDir = "ok"
  /\ \E i \in 1..Len(fs.entries) :
       fs' = [fs EXCEPT !.entries = SubSeq(@, 1, i - 1) \o SubSeq(@, i + 1, Len(@))]
  /\ UNCHANGED <<cwd, pc, opLog, assets, error, stdout, stderr, exitCode, run, results>>

NextEnv == RunStep \/ EnvAddAsset \/ EnvRemoveAsset

SpecEnv == Init /\ [][NextEnv]_vars

\* Running until the process has exited, then Passed or Failed by the status.
Status ==
  IF pc # "exited" THEN "Running"
  ELSE IF exitCode = 0 THEN "Passed" ELSE "Failed"

(***************************************************************************)
(* What the properties below expect, written out independently of the      *)
(* operators of the model above.                                           *)
(***************************************************************************)
ExpectedDistPath ==
  CASE cwd = "/" -> "/dist"
    [] cwd = "/srv/app" -> "/srv/app/dist"

ExpectedHtmlPath ==
  CASE cwd = "/" -> "/dist/index.html"
    [] cwd = "/srv/app" -> "/srv/app/dist/index.html"

ExpectedAssetsPath ==
  CASE cwd = "/" -> "/dist/assets"
    [] cwd = "/srv/app" -> "/srv/app/dist/assets"

\* The last three characters of the name are '.', 'j', 's'.
EndsInDotJs(n) ==
  /\ Len(n) >= 3
  /\ n[Len(n) - 2] = "."
  /\ n[Len(n) - 1] = "j"
  /\ n[Len(n)] = "s"

HoldsJs(listing) == \E i \in 1..Len(listing) : EndsInDotJs(listing[i])

\* One output line per entry, in the order of the listing.
ListedInOrder(lines, listing) ==
  /\ Len(lines) = Len(listing) + 1
  /\ lines[1] = "Prebuilt dist assets detected:"
  /\ \A i \in 1..Len(listing) : lines[i + 1] = "  - " \o Str(listing[i])

InFlight == { k \in 1..Len(opLog) : opLog[k].result = "pending" }

\* C1: a failing run writes exactly one line to the error stream and nothing
\* to standard output, and the line is the message of the first failing
\* check in the order dist, dist/index.html, assets; no filesystem call is
\* made after the failing check.
C1_FirstFailureOnly ==
  /\ Len(stderr) <= 1
  /\ Status = "Failed" =>
       /\ Len(stderr) = 1
       /\ stdout = <<>>
       /\ fs.dist # "ok" =>
            /\ stderr[1] = "Missing dist directory at " \o ExpectedDistPath
            /\ Len(opLog) = 1
       /\ (fs.dist = "ok" /\ fs.html # "ok") =>
            /\ stderr[1] = "Missing dist/index.html at " \o ExpectedHtmlPath
            /\ Len(opLog) = 2
       /\ (fs.dist = "ok" /\ fs.html = "ok") =>
            /\ stderr[1] = "dist/assets is missing bundled JavaScript output"
            /\ Len(opLog) = 3

\* Scenario B: index.html absent while dist/assets holds app.js.
C1_Witness ==
  /\ Status = "Failed"
  /\ fs.dist = "ok"
  /\ fs.html = "ENOENT"
  /\ fs.entries = <<AppJs>>

\* C2: with dist/index.html present and a name ending in '.js' in the
\* listing of dist/assets, the run exits with status 0, writes nothing to
\* the error stream, and prints the header followed by one line per entry of
\* the listing, in the order of the listing.
C2_SuccessListsEveryEntry ==
  (pc = "exited" /\ fs.html = "ok" /\ fs.assetsDir = "ok" /\ HoldsJs(fs.entries)) =>
    /\ exitCode = 0
    /\ stderr = <<>>
    /\ ListedInOrder(stdout, fs.entries)

C2_Witness ==
  /\ pc = "exited"
  /\ fs.html = "ok"
  /\ fs.entries = <<Jsx, AppJs>>
  /\ stdout = <<"Prebuilt dist assets detected:", "  - a.jsx", "  - app.js">>

\* C3: with dist/index.html present and dist/assets absent, unlistable or
\* without a name ending in '.js', the run fails with exactly the message
\* 'dist/assets is missing bundled JavaScript output', whatever the code the
\* directory read was rejected with.
C3_AssetsFailureMessage ==
  (pc = "exited" /\ fs.html = "ok" /\ (fs.assetsDir # "ok" \/ ~HoldsJs(fs.entries))) =>
    /\ exitCode # 0
    /\ stderr = <<"dist/assets is missing bundled JavaScript output">>
    /\ stdout = <<>>

C3_Witness ==
  /\ pc = "exited"
  /\ fs.html = "ok"
  /\ fs.assetsDir = "EACCES"
  /\ exitCode = 1

ListingTested == pc \in {"resolved", "rejected", "handled", "exited"} /\ Len(opLog) = 3

\* C5: the asset check succeeds if and only if the listing holds a name
\* ending in the exact suffix '.js': of the names at hand 'app.js' and '.js'
\* qualify, 'APP.JS', 'a.jsx', 'a.js.map' and 'ajs' do not.
C5_ExactSuffix ==
  ListingTested =>
    /\ (error = NoError) <=> (\E i \in 1..Len(assets) : assets[i] \in {AppJs, DotJs})
    /\ (error = NoError) <=> HoldsJs(assets)

C5_Witness ==
  /\ ListingTested
  /\ assets = <<JsMap, DotJs>>
  /\ error = NoError

\* C6: every invocation against the unmodified directory ends with the same
\* exit status, the same standard output and the same error stream.
C6_RunsAgree ==
  \A i, j \in 1..Len(results) : results[i] = results[j]

C6_Witness ==
  /\ Len(results) >= 2
  /\ results[1].exitCode = 1
  /\ results[2].stderr = <<"Missing dist directory at /srv/app/dist">>

Rank(p) ==
  CASE p = "start" -> 0
    [] p = "accessDist" -> 1
    [] p = "accessHtml" -> 2
    [] p = "readdir" -> 3
    [] p = "check" -> 4
    [] p \in {"resolved", "rejected"} -> 5
    [] p = "handled" -> 6
    [] p = "exited" -> 7

\* C7: a run starts Running and eventually is Passed or Failed; within a run
\* every step moves forward, and a terminal state is never left; Passed
\* comes only after the three checks have succeeded, Failed comes with the
\* failure of the last check made.
C7_Lifecycle ==
  /\ Status = "Running"
  /\ [][ /\ run' = run => Rank(pc') > Rank(pc)
         /\ (run' = run /\ Status # "Running") => Status' = Status
         /\ run' # run => (Status # "Running" /\ Status' = "Running") ]_vars
  /\ [](Status = "Passed" =>
          /\ error = NoError
          /\ Len(opLog) = 3
          /\ \A k \in 1..3 : opLog[k].result = "ok"
          /\ HoldsJs(assets))
  /\ [](Status = "Failed" =>
          /\ error # NoError
          /\ \A k \in 1..(Len(opLog) - 1) : opLog[k].result = "ok"
          /\ (opLog[Len(opLog)].result # "ok" \/ ~HoldsJs(assets)))
  /\ \A r \in 1..MaxRuns :
       (run = r /\ Status = "Running") ~> (run = r /\ Status \in {"Passed", "Failed"})

C7_Witness ==
  /\ run = 2
  /\ Status = "Failed"
  /\ Len(opLog) = 3
  /\ opLog[3].result = "ENOTDIR"

\* C8: at most one filesystem call is in flight, the calls are made in the
\* order access dist, access dist/index.html, read dist/assets, and a call is
\* made only after every earlier one has succeeded.
C8_Sequential ==
  /\ Cardinality(InFlight) <= 1
  /\ Len(opLog) <= 3
  /\ \A k \in 1..Len(opLog) : k < Len(opLog) => opLog[k].result = "ok"
  /\ Len(opLog) >= 1 => (opLog[1].call = "access" /\ opLog[1].path = ExpectedDistPath)
  /\ Len(opLog) >= 2 => (opLog[2].call = "access" /\ opLog[2].path = ExpectedHtmlPath)
  /\ Len(opLog) >= 3 => (opLog[3].call = "readdir" /\ opLog[3].path = ExpectedAssetsPath)

C8_Witness ==
  /\ Len(opLog) = 3
  /\ InFlight = {3}

\* C9: no step of a run changes the filesystem or the working directory.
C9_NoFilesystemMutation ==
  [][fs' = fs /\ cwd' = cwd]_vars

C9_Witness ==
  /\ run = 2
  /\ pc = "exited"
  /\ fs.assetsDir = "ENOENT"
  /\ fs.html = "ok"

\* C10: dist/assets is never read twice in a run and is read exactly once by
\* every run that gets past the two existence checks; on a successful run
\* the summary lists exactly the listing that read returned, which holds a
\* name ending in '.js', whatever happened to the directory since.
C10_PrintedIsTested ==
  /\ Cardinality({ k \in 1..Len(opLog) : opLog[k].call = "readdir" }) <= 1
  /\ (Rank(pc) >= 3 /\ \A k \in 1..Len(opLog) : opLog[k].call = "access" => opLog[k].result = "ok") =>
       Cardinality({ k \in 1..Len(opLog) : opLog[k].call = "readdir" }) = 1
  /\ (pc \in {"resolved", "exited"} /\ exitCode = 0) =>
       /\ Len(opLog) = 3
       /\ opLog[3].call = "readdir"
       /\ ListedInOrder(stdout, opLog[3].value)
       /\ HoldsJs(opLog[3].value)

\* The only script was removed from the directory after the read.
C10_Witness ==
  /\ pc = "exited"
  /\ exitCode = 0
  /\ opLog[3].value = <<AppJs, Jsx>>
  /\ fs.entries = <<Jsx>>

====
